---- MODULE Spec2Model ----
(***************************************************************************)
(* Dark matter spectra: gammapy/astro/darkmatter/spectra.py                *)
(*                                                                         *)
(* PrimaryFlux (table interpolant with a bounded mass parameter and a      *)
(* channel), DarkMatterAnnihilationSpectralModel and                       *)
(* DarkMatterDecaySpectralModel (formula wrappers around one PrimaryFlux). *)
(*                                                                         *)
(* Numbers.  Masses and energies are integers in GeV.  np.log10 is fixed   *)
(* point, in tenths of a decade.  Interpolated yields are hundredths.      *)
(* A flux is kept as an exact fraction (coef) together with the mass and   *)
(* energy that divide it, the constants sigma_v, tau, 4 pi and ln(10)      *)
(* being common factors of every flux of one model class.                  *)
(***************************************************************************)
EXTENDS Integers, Sequences, FiniteSets, TLC

VARIABLES fileExists, pf, model, last

vars == <<fileExists, pf, model, last>>

----------------------------------------------------------------------------
(* Bounds of the checked instances *)

MaxScale == 2
MaxJFactor == 2

----------------------------------------------------------------------------
(* Quantities (astropy.units), as this module uses them *)

Q(v, un) == [value |-> v, unit |-> un]

MassUnits == {"GeV", "TeV"}

\* Quantity.to(unit).to_value(unit) towards GeV; <<>> when not convertible
to_value_GeV(q) ==
    CASE q.unit = "GeV" -> <<q.value>>
      [] q.unit = "TeV" -> <<q.value * 1000>>
      [] OTHER -> <<>>

\* Quantity.to_string(): "<value> <unit>", and its parse by u.Quantity(str)
to_string(q) == [text |-> <<q.value, " ", q.unit>>]

Quantity(x) == IF "text" \in DOMAIN x THEN Q(x.text[1], x.text[3]) ELSE x

RECURSIVE log10(_)
\* np.log10 in tenths of a decade, on d * 10^j with d in {1, 2, 4, 5, 8}
log10(n) ==
    IF n >= 10 /\ n % 10 = 0 THEN 10 + log10(n \div 10)
    ELSE CASE n = 1 -> 0
           [] n = 2 -> 3
           [] n = 4 -> 6
           [] n = 5 -> 7
           [] n = 8 -> 9

RECURSIVE GCD(_, _)
GCD(a, b) == IF b = 0 THEN a ELSE GCD(b, a % b)

Abs(n) == IF n < 0 THEN -n ELSE n

\* an exact fraction in lowest terms
Rat(n, d) ==
    IF n = 0 THEN [num |-> 0, den |-> 1]
    ELSE LET g == GCD(Abs(n), Abs(d)) IN [num |-> n \div g, den |-> d \div g]

----------------------------------------------------------------------------
(* PrimaryFlux: class attributes *)

channel_registry ==
    [c \in {"eL", "eR", "e", "muL", "muR", "mu", "tauL", "tauR", "tau",
            "q", "c", "b", "t", "WL", "WT", "W", "ZL", "ZT", "Z", "g",
            "gamma", "h", "nu_e", "nu_mu", "nu_tau", "V->e", "V->mu",
            "V->tau"} |->
       CASE c = "muL" -> "\\[Mu]L"
         [] c = "muR" -> "\\[Mu]R"
         [] c = "mu" -> "\\[Mu]"
         [] c = "tauL" -> "\\[Tau]L"
         [] c = "tauR" -> "\\[Tau]R"
         [] c = "tau" -> "\\[Tau]"
         [] c = "gamma" -> "\\[Gamma]"
         [] c = "nu_e" -> "\\[Nu]e"
         [] c = "nu_mu" -> "\\[Nu]\\[Mu]"
         [] c = "nu_tau" -> "\\[Nu]\\[Tau]"
         [] c = "V->mu" -> "V->\\[Mu]"
         [] c = "V->tau" -> "V->\\[Tau]"
         [] OTHER -> c]

\* list(channel_registry.keys()), in the order of the literal
registry_keys ==
    <<"eL", "eR", "e", "muL", "muR", "mu", "tauL", "tauR", "tau",
      "q", "c", "b", "t", "WL", "WT", "W", "ZL", "ZT", "Z", "g",
      "gamma", "h", "nu_e", "nu_mu", "nu_tau", "V->e", "V->mu", "V->tau">>

Range(s) == {s[i] : i \in DOMAIN s}

\* the contents of AtProduction_gammas.dat: np.unique(table["mDM"]) in GeV,
\* np.unique(table["Log[10,x]"]) in tenths, and the yield columns
masses == <<100, 1000, 10000>>

log10x_nodes == <<-10, -5, 0>>

table_column(name) ==
    [ix \in 1..Len(log10x_nodes) |-> [im \in 1..Len(masses) |->
        IF name = "b" THEN 2 * ix + im
        ELSE IF name = "\\[Tau]" THEN ix + 3 * im
        ELSE ix + im]]

----------------------------------------------------------------------------
(* Errors and outcomes *)

NoError == [type |-> "none", what |-> "", listed |-> <<>>]

FileNotFoundError ==
    [type |-> "FileNotFoundError", what |-> "table_filename", listed |-> <<>>]

UnitConversionError ==
    [type |-> "UnitConversionError", what |-> "mDM", listed |-> <<>>]

\* ValueError(f"Invalid channel: {channel}\nAvailable: {allowed}\n")
InvalidChannelError(allowed) ==
    [type |-> "ValueError", what |-> "channel", listed |-> allowed]

\* ValueError(f"The mass ... between {min_mass} < `mDM` < {max_mass}")
MassOutOfBoundsError(min_mass, max_mass) ==
    [type |-> "ValueError", what |-> "mDM", listed |-> <<min_mass, max_mass>>]

NoInstance == [class |-> "None"]

Out(self, error) == [self |-> self, error |-> error]

----------------------------------------------------------------------------
(* The collaborators PrimaryFlux is built on *)

\* MapAxis.coord_to_pix on evenly spaced nodes, in tenths of a pixel
coord_to_pix(nodes, coord) == ((coord - nodes[1]) * 10) \div (nodes[2] - nodes[1])

\* linear interpolation along one axis between data points lo and hi,
\* p in tenths of a pixel from lo: the result is in tenths
lerp(lo, hi, p) == (10 - p) * lo + p * hi

Min2(a, b) == IF a < b THEN a ELSE b

Max2(a, b) == IF a > b THEN a ELSE b

\* Map.interp_by_pix on the (log10x, mass) grid: hundredths of the yield.
\* Outside the grid the fill value is returned when one is set, otherwise
\* the edge cell is extrapolated.
interp_by_pix(data, px, pm, interp_kwargs) ==
    LET nx == Len(data)
        nm == Len(data[1])
        outside == px < 0 \/ px > 10 * (nx - 1) \/ pm < 0 \/ pm > 10 * (nm - 1)
        ix == Max2(1, Min2(nx - 1, (px \div 10) + 1))
        im == Max2(1, Min2(nm - 1, (pm \div 10) + 1))
        fx == px - 10 * (ix - 1)
        fm == pm - 10 * (im - 1)
    IN IF outside /\ interp_kwargs.fill_value # <<>>
       THEN 100 * interp_kwargs.fill_value[1]
       ELSE lerp(lerp(data[ix][im], data[ix][im + 1], fm),
                 lerp(data[ix + 1][im], data[ix + 1][im + 1], fm), fx)

\* TemplateNDSpectralModel.__init__: one Parameter per non-energy axis, its
\* bounds the axis bounds and its value their centre
TemplateND_init(self, region_map, interp_kwargs) ==
    LET lo == region_map.mass_axis[1]
        hi == region_map.mass_axis[Len(region_map.mass_axis)]
    IN [self EXCEPT
          !._map = region_map,
          !._interp_kwargs = interp_kwargs,
          !.mass = [name |-> "mass", value |-> (lo + hi) \div 2, unit |-> "GeV",
                    min |-> lo, max |-> hi, frozen |-> FALSE]]

\* TemplateNDSpectralModel.evaluate(energy=log10x, mass=...)
TemplateND_evaluate(self, log10x, mass) ==
    interp_by_pix(self._map.data,
                  coord_to_pix(self._map.log10x_axis, log10x),
                  coord_to_pix([i \in 1..Len(self._map.mass_axis) |->
                                  log10(self._map.mass_axis[i])], log10(mass)),
                  self._interp_kwargs)

----------------------------------------------------------------------------
(* PrimaryFlux *)

\* a registry listed by its column labels instead of its keys
allowed_channels_labels ==
    [i \in 1..Len(registry_keys) |-> channel_registry[registry_keys[i]]]

\* allowed_channels: list(self.channel_registry.keys())
allowed_channels == registry_keys

\* channel (getter)
channel_getter(self) == self._channel

\* channel (setter)
channel_setter(self, channel) ==
    IF channel \notin Range(allowed_channels)
    THEN Out(self, InvalidChannelError(allowed_channels))
    ELSE Out([self EXCEPT !._channel = channel], NoError)

\* mDM (getter): u.Quantity(self.mass.value, "GeV")
mDM_getter(self) == Q(self.mass.value, "GeV")

\* a setter that commits the value before it validates it
mDM_setter_commits_first(self, mDM) ==
    LET _mDM_val == to_value_GeV(Quantity(mDM))
    IN IF _mDM_val = <<>>
       THEN Out(self, UnitConversionError)
       ELSE IF _mDM_val[1] < self.mass.min \/ _mDM_val[1] > self.mass.max
       THEN Out([self EXCEPT !.mass.value = _mDM_val[1]],
                MassOutOfBoundsError(Q(self.mass.min, self.mass.unit),
                                     Q(self.mass.max, self.mass.unit)))
       ELSE Out([self EXCEPT !.mass.value = _mDM_val[1]], NoError)

\* a setter that rejects the endpoints of the axis
mDM_setter_strict(self, mDM) ==
    LET _mDM_val == to_value_GeV(Quantity(mDM))
    IN IF _mDM_val = <<>>
       THEN Out(self, UnitConversionError)
       ELSE IF _mDM_val[1] <= self.mass.min \/ _mDM_val[1] >= self.mass.max
       THEN Out(self, MassOutOfBoundsError(Q(self.mass.min, self.mass.unit),
                                          Q(self.mass.max, self.mass.unit)))
       ELSE Out([self EXCEPT !.mass.value = _mDM_val[1]], NoError)

\* mDM (setter)
mDM_setter(self, mDM) ==
    LET _mDM_val == to_value_GeV(Quantity(mDM))
    IN IF _mDM_val = <<>>
       THEN Out(self, UnitConversionError)
       ELSE IF _mDM_val[1] < self.mass.min \/ _mDM_val[1] > self.mass.max
       THEN Out(self, MassOutOfBoundsError(Q(self.mass.min, self.mass.unit),
                                          Q(self.mass.max, self.mass.unit)))
       ELSE Out([self EXCEPT !.mass.value = _mDM_val[1]], NoError)

\* interpolation options that leave the fill value unset
interp_kwargs_no_fill ==
    [extrapolate |-> TRUE, fill_value |-> <<>>, values_scale |-> "lin"]

interp_kwargs == [extrapolate |-> TRUE, fill_value |-> <<0>>, values_scale |-> "lin"]

\* the attributes of a PrimaryFlux object before __init__ has set them
NewObject ==
    [class |-> "PrimaryFlux", _channel |-> "", _map |-> <<>>,
     _interp_kwargs |-> <<>>, mass |-> <<>>]

\* a constructor that validates the channel before it looks for the file
PrimaryFlux_init_channel_first(mDM, channel, table_path_exists) ==
    LET set_channel == channel_setter(NewObject, channel)
    IN IF set_channel.error # NoError
       THEN Out(NoInstance, set_channel.error)
       ELSE IF ~table_path_exists
       THEN Out(NoInstance, FileNotFoundError)
       ELSE LET channel_name == channel_registry[channel_getter(set_channel.self)]
                region_map == [column |-> channel_name,
                               log10x_axis |-> log10x_nodes,
                               mass_axis |-> masses,
                               data |-> table_column(channel_name)]
                built == TemplateND_init(set_channel.self, region_map,
                                         interp_kwargs)
                set_mDM == mDM_setter(built, mDM)
            IN IF set_mDM.error # NoError
               THEN Out(NoInstance, set_mDM.error)
               ELSE Out([set_mDM.self EXCEPT !.mass.frozen = TRUE], NoError)

\* PrimaryFlux.__init__(mDM, channel), the data file being there or not
PrimaryFlux_init(mDM, channel, table_path_exists) ==
    IF ~table_path_exists
    THEN Out(NoInstance, FileNotFoundError)
    ELSE LET set_channel == channel_setter(NewObject, channel)
         IN IF set_channel.error # NoError
            THEN Out(NoInstance, set_channel.error)
            ELSE LET channel_name == channel_registry[channel_getter(set_channel.self)]
                     region_map == [column |-> channel_name,
                                    log10x_axis |-> log10x_nodes,
                                    mass_axis |-> masses,
                                    data |-> table_column(channel_name)]
                     built == TemplateND_init(set_channel.self, region_map,
                                              interp_kwargs)
                     set_mDM == mDM_setter(built, mDM)
                 IN IF set_mDM.error # NoError
                    THEN Out(NoInstance, set_mDM.error)
                    ELSE Out([set_mDM.self EXCEPT !.mass.frozen = TRUE], NoError)

\* PrimaryFlux.evaluate(energy): dN/dE = coef / (energy * ln 10)
PrimaryFlux_evaluate(self, energy) ==
    LET log10x == log10(energy) - log10(mDM_getter(self).value)
        dN_dlogx == TemplateND_evaluate(self, log10x, mDM_getter(self).value)
    IN [coef |-> Rat(dN_dlogx, 100), energy |-> energy]

----------------------------------------------------------------------------
(* Parameter and SpectralModel, as the flux models use them *)

\* scale = Parameter("scale", 1, unit="", interp="log")
scale_default ==
    [name |-> "scale", value |-> 1, unit |-> "", min |-> <<>>, max |-> <<>>,
     frozen |-> FALSE, interp |-> "log"]

\* SpectralModel.__init__(scale=scale): the default parameter, with the value given
SpectralModel_init(self, scale) ==
    [self EXCEPT !.scale = [scale_default EXCEPT !.value = scale]]

\* SpectralModel.to_dict(): the type tag and every parameter with its metadata
SpectralModel_to_dict(self) ==
    [type |-> self.class, parameters |-> <<self.scale>>]

----------------------------------------------------------------------------
(* DarkMatterAnnihilationSpectralModel *)

\* __init__(mass, channel, scale, jfactor, z, k)
Annihilation_init(mass, channel, scale, jfactor, z, k, table_path_exists) ==
    LET made == PrimaryFlux_init(mass, channel, table_path_exists)
        self == [class |-> "DarkMatterAnnihilationSpectralModel",
                 k |-> k, z |-> z, mass |-> Quantity(mass), channel |-> channel,
                 jfactor |-> Quantity(jfactor), primary_flux |-> made.self,
                 scale |-> <<>>]
    IN IF made.error # NoError
       THEN Out(NoInstance, made.error)
       ELSE Out(SpectralModel_init(self, scale), NoError)

\* an evaluation that multiplies by k instead of dividing by it
Annihilation_evaluate_times_k(self, energy, scale) ==
    LET dN_dE == PrimaryFlux_evaluate(self.primary_flux, energy * (1 + self.z))
    IN [coef |-> Rat(scale * self.jfactor.value * dN_dE.coef.num * self.k,
                     dN_dE.coef.den),
        mass |-> to_value_GeV(self.mass)[1], mass_power |-> 2,
        energy |-> dN_dE.energy]

\* evaluate(energy, scale): coef * sigma_v / (4 pi ln 10 mass^2 energy(1+z))
Annihilation_evaluate(self, energy, scale) ==
    LET dN_dE == PrimaryFlux_evaluate(self.primary_flux, energy * (1 + self.z))
    IN [coef |-> Rat(scale * self.jfactor.value * dN_dE.coef.num,
                     self.k * dN_dE.coef.den),
        mass |-> to_value_GeV(self.mass)[1], mass_power |-> 2,
        energy |-> dN_dE.energy]

\* to_dict()
Annihilation_to_dict(self) ==
    [spectral |-> [type |-> SpectralModel_to_dict(self).type,
                   parameters |-> SpectralModel_to_dict(self).parameters,
                   channel |-> self.channel,
                   mass |-> to_string(self.mass),
                   jfactor |-> to_string(self.jfactor),
                   z |-> self.z,
                   k |-> self.k]]

\* the value of the parameter named "scale" in a list of parameter records
scale_value(parameters) ==
    parameters[CHOOSE i \in DOMAIN parameters : parameters[i].name = "scale"].value

\* from_dict(data)
Annihilation_from_dict(data, table_path_exists) ==
    LET d == data.spectral
    IN Annihilation_init(d.mass, d.channel, scale_value(d.parameters),
                         d.jfactor, d.z, d.k, table_path_exists)

----------------------------------------------------------------------------
(* DarkMatterDecaySpectralModel *)

\* __init__(mass, channel, scale, jfactor, z)
Decay_init(mass, channel, scale, jfactor, z, table_path_exists) ==
    LET made == PrimaryFlux_init(mass, channel, table_path_exists)
        self == [class |-> "DarkMatterDecaySpectralModel",
                 z |-> z, mass |-> Quantity(mass), channel |-> channel,
                 jfactor |-> Quantity(jfactor), primary_flux |-> made.self,
                 scale |-> <<>>]
    IN IF made.error # NoError
       THEN Out(NoInstance, made.error)
       ELSE Out(SpectralModel_init(self, scale), NoError)

\* evaluate(energy, scale): coef / (tau 4 pi ln 10 mass energy(1+z))
Decay_evaluate(self, energy, scale) ==
    LET dN_dE == PrimaryFlux_evaluate(self.primary_flux, energy * (1 + self.z))
    IN [coef |-> Rat(scale * self.jfactor.value * dN_dE.coef.num, dN_dE.coef.den),
        mass |-> to_value_GeV(self.mass)[1], mass_power |-> 1,
        energy |-> dN_dE.energy]

\* to_dict()
Decay_to_dict(self) ==
    [spectral |-> [type |-> SpectralModel_to_dict(self).type,
                   parameters |-> SpectralModel_to_dict(self).parameters,
                   channel |-> self.channel,
                   mass |-> to_string(self.mass),
                   jfactor |-> to_string(self.jfactor),
                   z |-> self.z]]

\* from_dict(data)
Decay_from_dict(data, table_path_exists) ==
    LET d == data.spectral
    IN Decay_init(d.mass, d.channel, scale_value(d.parameters),
                  d.jfactor, d.z, table_path_exists)

\* the two model classes behind one call
IsAnnihilation(self) == self.class = "DarkMatterAnnihilationSpectralModel"

evaluate(self, energy, scale) ==
    IF IsAnnihilation(self) THEN Annihilation_evaluate(self, energy, scale)
    ELSE Decay_evaluate(self, energy, scale)

to_dict(self) ==
    IF IsAnnihilation(self) THEN Annihilation_to_dict(self) ELSE Decay_to_dict(self)

from_dict(data, table_path_exists) ==
    IF data.spectral.type = "DarkMatterAnnihilationSpectralModel"
    THEN Annihilation_from_dict(data, table_path_exists)
    ELSE Decay_from_dict(data, table_path_exists)

----------------------------------------------------------------------------
(* The inputs of the checked instances *)

MassInputs ==
    {Q(50, "GeV"), Q(100, "GeV"), Q(200, "GeV"), Q(10, "TeV"), Q(20, "TeV"),
     Q(5, "s")}

ChannelInputs == {"b", "tau", "foo"}

EnergyInputs == {5, 20, 100, 500}

ScaleInputs == 1..MaxScale

JFactorInputs == {Q(j, "GeV2 cm-5") : j \in 1..MaxJFactor}

RedshiftInputs == {0, 1}

KInputs == {2, 4}

NoArgs == [none |-> TRUE]

NoResult == [none |-> TRUE]

Call(op, args, error, result) ==
    [op |-> op, args |-> args, error |-> error, result |-> result]

----------------------------------------------------------------------------
(* State: the data file, one PrimaryFlux, one flux model, the last call *)

Init ==
    /\ fileExists \in BOOLEAN
    /\ pf = NoInstance
    /\ model = NoInstance
    /\ last = Call("none", NoArgs, NoError, NoResult)

\* the data set is downloaded, or removed
DataFile ==
    /\ fileExists' = ~fileExists
    /\ UNCHANGED <<pf, model, last>>

\* pf = PrimaryFlux(mDM, channel)
Construct(mDM, channel) ==
    LET out == PrimaryFlux_init(mDM, channel, fileExists)
    IN /\ pf = NoInstance
       /\ pf' = IF out.error = NoError THEN out.self ELSE pf
       /\ last' = Call("PrimaryFlux", [mDM |-> mDM, channel |-> channel,
                                       file |-> fileExists], out.error, NoResult)
       /\ UNCHANGED <<fileExists, model>>

\* pf.mDM = mDM
Set_mDM(mDM) ==
    /\ pf # NoInstance
    /\ LET out == mDM_setter(pf, mDM)
       IN /\ pf' = out.self
          /\ last' = Call("mDM", [mDM |-> mDM], out.error, NoResult)
    /\ UNCHANGED <<fileExists, model>>

\* pf.channel = channel
Set_channel(channel) ==
    /\ pf # NoInstance
    /\ LET out == channel_setter(pf, channel)
       IN /\ pf' = out.self
          /\ last' = Call("channel", [channel |-> channel], out.error, NoResult)
    /\ UNCHANGED <<fileExists, model>>

\* pf.evaluate(energy)
Evaluate(energy) ==
    /\ pf # NoInstance
    /\ last' = Call("evaluate", [energy |-> energy], NoError,
                    PrimaryFlux_evaluate(pf, energy))
    /\ UNCHANGED <<fileExists, pf, model>>

Next ==
    \/ DataFile
    \/ \E mDM \in MassInputs, channel \in ChannelInputs : Construct(mDM, channel)
    \/ \E mDM \in MassInputs : Set_mDM(mDM)
    \/ \E channel \in ChannelInputs : Set_channel(channel)
    \/ \E energy \in EnergyInputs : Evaluate(energy)

Spec == Init /\ [][Next]_vars

----------------------------------------------------------------------------
(* The flux models *)

\* model = DarkMatterAnnihilationSpectralModel(mass, channel, scale, jfactor, z, k)
ConstructAnnihilation(mass, channel, scale, jfactor, z, k) ==
    LET out == Annihilation_init(mass, channel, scale, jfactor, z, k, fileExists)
    IN /\ model = NoInstance
       /\ model' = IF out.error = NoError THEN out.self ELSE model
       /\ last' = Call("Annihilation", [mDM |-> mass, channel |-> channel,
                                        file |-> fileExists], out.error, NoResult)
       /\ UNCHANGED <<fileExists, pf>>

\* model = DarkMatterDecaySpectralModel(mass, channel, scale, jfactor, z)
ConstructDecay(mass, channel, scale, jfactor, z) ==
    LET out == Decay_init(mass, channel, scale, jfactor, z, fileExists)
    IN /\ model = NoInstance
       /\ model' = IF out.error = NoError THEN out.self ELSE model
       /\ last' = Call("Decay", [mDM |-> mass, channel |-> channel,
                                 file |-> fileExists], out.error, NoResult)
       /\ UNCHANGED <<fileExists, pf>>

\* model.mass = mass
Set_mass(mass) ==
    /\ model # NoInstance
    /\ mass.unit \in MassUnits
    /\ model' = [model EXCEPT !.mass = mass]
    /\ last' = Call("mass", [mDM |-> mass], NoError, NoResult)
    /\ UNCHANGED <<fileExists, pf>>

\* model.primary_flux.mDM = mDM
Set_primary_flux_mDM(mDM) ==
    /\ model # NoInstance
    /\ LET out == mDM_setter(model.primary_flux, mDM)
       IN /\ model' = [model EXCEPT !.primary_flux = out.self]
          /\ last' = Call("primary_flux.mDM", [mDM |-> mDM], out.error, NoResult)
    /\ UNCHANGED <<fileExists, pf>>

\* model.scale.value = value
Set_scale_value(value) ==
    /\ model # NoInstance
    /\ model' = [model EXCEPT !.scale.value = value]
    /\ last' = Call("scale.value", [value |-> value], NoError, NoResult)
    /\ UNCHANGED <<fileExists, pf>>

\* model.scale.frozen = frozen
Set_scale_frozen(frozen) ==
    /\ model # NoInstance
    /\ model' = [model EXCEPT !.scale.frozen = frozen]
    /\ last' = Call("scale.frozen", [frozen |-> frozen], NoError, NoResult)
    /\ UNCHANGED <<fileExists, pf>>

\* model.evaluate(energy, scale)
EvaluateModel(energy, scale) ==
    /\ model # NoInstance
    /\ last' = Call("model.evaluate", [energy |-> energy, scale |-> scale],
                    NoError, evaluate(model, energy, scale))
    /\ UNCHANGED <<fileExists, pf, model>>

\* model.primary_flux.evaluate(energy)
EvaluatePrimaryFlux(energy) ==
    /\ model # NoInstance
    /\ last' = Call("primary_flux.evaluate", [energy |-> energy], NoError,
                    PrimaryFlux_evaluate(model.primary_flux, energy))
    /\ UNCHANGED <<fileExists, pf, model>>

\* type(model).from_dict(model.to_dict())
RoundTrip ==
    /\ model # NoInstance
    /\ LET out == from_dict(to_dict(model), fileExists)
       IN last' = Call("from_dict", [file |-> fileExists], out.error, out.self)
    /\ UNCHANGED <<fileExists, pf, model>>

ModelNext ==
    \/ DataFile
    \/ \E mass \in MassInputs, channel \in ChannelInputs, scale \in ScaleInputs,
          jfactor \in JFactorInputs, z \in RedshiftInputs, k \in KInputs :
          ConstructAnnihilation(mass, channel, scale, jfactor, z, k)
    \/ \E mass \in MassInputs, channel \in ChannelInputs, scale \in ScaleInputs,
          jfactor \in JFactorInputs, z \in RedshiftInputs :
          ConstructDecay(mass, channel, scale, jfactor, z)
    \/ \E mass \in MassInputs : Set_mass(mass)
    \/ \E mDM \in MassInputs : Set_primary_flux_mDM(mDM)
    \/ \E value \in ScaleInputs : Set_scale_value(value)
    \/ \E frozen \in BOOLEAN : Set_scale_frozen(frozen)
    \/ \E energy \in EnergyInputs, scale \in ScaleInputs : EvaluateModel(energy, scale)
    \/ \E energy \in EnergyInputs : EvaluatePrimaryFlux(energy)
    \/ RoundTrip

ModelSpec == Init /\ [][ModelNext]_vars

\* construction alone, of the interpolant and of the models that wrap it
ConstructNext ==
    \/ DataFile
    \/ \E mDM \in MassInputs, channel \in ChannelInputs : Construct(mDM, channel)
    \/ \E mass \in MassInputs, channel \in ChannelInputs, scale \in ScaleInputs,
          jfactor \in JFactorInputs, z \in RedshiftInputs, k \in KInputs :
          ConstructAnnihilation(mass, channel, scale, jfactor, z, k)
    \/ \E mass \in MassInputs, channel \in ChannelInputs, scale \in ScaleInputs,
          jfactor \in JFactorInputs, z \in RedshiftInputs :
          ConstructDecay(mass, channel, scale, jfactor, z)

ConstructSpec == Init /\ [][ConstructNext]_vars

----------------------------------------------------------------------------
(* Properties of PrimaryFlux, under Spec *)

min_mass == masses[1]

max_mass == masses[Len(masses)]

IsMass(q) == to_value_GeV(q) # <<>>

OutOfAxis(q) ==
    IsMass(q) /\ (to_value_GeV(q)[1] < min_mass \/ to_value_GeV(q)[1] > max_mass)

\* C1: on a constructed PrimaryFlux, assigning mDM a mass that converts to a
\* value below the minimum or above the maximum of the mass axis raises the
\* mass error, and mDM reads afterwards what it read before the assignment.
C1_RejectedMassKeepsValue ==
    [][(last'.op = "mDM" /\ OutOfAxis(last'.args.mDM))
         => /\ last'.error = MassOutOfBoundsError(Q(min_mass, "GeV"), Q(max_mass, "GeV"))
            /\ pf # NoInstance
            /\ mDM_getter(pf') = mDM_getter(pf)]_vars

C1_Witness ==
    /\ last.op = "mDM"
    /\ last.args.mDM = Q(20, "TeV")
    /\ last.error.type = "ValueError"
    /\ mDM_getter(pf) = Q(200, "GeV")

\* C2: in every state after construction and any sequence of mDM assignments
\* the stored mass lies within [min, max] of the mass axis, and an
\* assignment of either endpoint is accepted and stored.
C2_MassWithinAxis ==
    /\ pf # NoInstance =>
         /\ min_mass <= pf.mass.value /\ pf.mass.value <= max_mass
         /\ pf.mass.min = min_mass /\ pf.mass.max = max_mass
    /\ (last.op = "mDM" /\ IsMass(last.args.mDM)
          /\ to_value_GeV(last.args.mDM)[1] \in {min_mass, max_mass})
         => /\ last.error = NoError
            /\ pf.mass.value = to_value_GeV(last.args.mDM)[1]

C2_Witness ==
    /\ last.op = "mDM"
    /\ last.args.mDM = Q(10, "TeV")
    /\ last.error = NoError
    /\ pf.mass.value = max_mass

\* C3: a channel name that is no key of the registry, given at construction
\* (the data file present) or assigned to an instance, raises the channel
\* error, whose message lists every key of the registry; no instance is
\* made, and an existing instance keeps its channel.
C3_InvalidChannelListsKeys ==
    [][(/\ last'.op \in {"PrimaryFlux", "channel"}
        /\ last'.args.channel \notin DOMAIN channel_registry
        /\ last'.op = "PrimaryFlux" => last'.args.file)
         => /\ last'.error.type = "ValueError"
            /\ last'.error.what = "channel"
            /\ DOMAIN channel_registry = Range(last'.error.listed)
            /\ pf = NoInstance => pf' = NoInstance
            /\ pf # NoInstance =>
                 pf' # NoInstance /\ channel_getter(pf') = channel_getter(pf)]_vars

C3_Witness ==
    /\ last.op = "channel"
    /\ last.args.channel = "foo"
    /\ last.error.type = "ValueError"
    /\ pf # NoInstance
    /\ channel_getter(pf) = "tau"

\* C4: the channel an instance reports is the channel whose table column its
\* interpolation grid was built from, in every state after construction.
C4_ChannelIsGridChannel ==
    pf # NoInstance => channel_registry[channel_getter(pf)] = pf._map.column

Distance(a, b) == IF a < b THEN b - a ELSE a - b

nearest_node(value) ==
    CHOOSE n \in Range(masses) :
        \A o \in Range(masses) : Distance(n, value) <= Distance(o, value)

\* C7: after a PrimaryFlux is constructed with a mass inside the bounds of
\* the mass axis, mDM reads back the tabulated mass nearest to that mass.
C7_MassIsNearestNode ==
    (last.op = "PrimaryFlux" /\ last.error = NoError)
        => mDM_getter(pf).value = nearest_node(to_value_GeV(last.args.mDM)[1])

----------------------------------------------------------------------------
(* Properties of evaluation and of the flux models, under ModelSpec *)

\* log10(energy / mass) lies outside the tabulated range of Log[10,x]
OutsideTable(energy, mass) ==
    LET log10x == log10(energy) - log10(mass)
    IN log10x < log10x_nodes[1] \/ log10x > log10x_nodes[Len(log10x_nodes)]

IsZero(flux) == flux.coef.num = 0

\* two fluxes of one model class at one energy are the same flux
FluxEq(a, b) ==
    /\ a.energy = b.energy
    /\ a.mass_power = b.mass_power
    /\ \/ IsZero(a) /\ IsZero(b)
       \/ a.coef = b.coef /\ a.mass = b.mass

Times(flux, c) == [flux EXCEPT !.coef = Rat(c * @.num, @.den)]

\* C5, as stated: a flux model returns exactly zero at every energy whose
\* log10(energy / mass) lies outside the tabulated range.
C5_ModelZeroOutsideTable ==
    (last.op = "model.evaluate"
       /\ OutsideTable(last.args.energy, mDM_getter(model.primary_flux).value))
        => IsZero(last.result)

\* C5, amended: PrimaryFlux.evaluate returns exactly zero, with no error, at
\* every energy whose log10(energy / mDM) lies outside the tabulated range,
\* for each channel and each mass within the bounds; a flux model returns
\* exactly zero when log10 of the redshifted energy, energy * (1 + z), over
\* the interpolant's mass lies outside that range.
C5_ZeroOutsideTable ==
    /\ (last.op = "primary_flux.evaluate"
          /\ OutsideTable(last.args.energy, mDM_getter(model.primary_flux).value))
         => IsZero(last.result) /\ last.error = NoError
    /\ (last.op = "model.evaluate"
          /\ OutsideTable(last.args.energy * (1 + model.z),
                          mDM_getter(model.primary_flux).value))
         => IsZero(last.result) /\ last.error = NoError

C5_Witness ==
    /\ last.op = "model.evaluate"
    /\ model.z = 1
    /\ model.channel = "tau"
    /\ last.args.energy = 500
    /\ mDM_getter(model.primary_flux) = Q(200, "GeV")
    /\ IsZero(last.result)

SameMass(a, b) == IsMass(a) /\ IsMass(b) /\ to_value_GeV(a) = to_value_GeV(b)

\* C6: from_dict(to_dict()) rebuilds a model with the same channel, mass,
\* J-factor, redshift and k, the same scale parameter (value, bounds and
\* frozen flag), and the same evaluate(E, scale) at every energy.  Stated
\* with the data file present and the model's mass that of its interpolant.
C6_RoundTripLossless ==
    (last.op = "from_dict" /\ last.args.file
       /\ SameMass(model.mass, mDM_getter(model.primary_flux)))
        => /\ last.error = NoError
           /\ last.result.class = model.class
           /\ last.result.channel = model.channel
           /\ SameMass(last.result.mass, model.mass)
           /\ last.result.jfactor = model.jfactor
           /\ last.result.z = model.z
           /\ IsAnnihilation(model) => last.result.k = model.k
           /\ last.result.scale = model.scale
           /\ \A energy \in EnergyInputs, scale \in ScaleInputs :
                FluxEq(evaluate(last.result, energy, scale),
                       evaluate(model, energy, scale))

\* C8: the annihilation flux for k = 2 is twice the flux for k = 4, and the
\* flux of either model is multiplied by c when scale or jfactor is.
C8_FluxScaling ==
    model # NoInstance =>
        \A energy \in EnergyInputs, scale \in ScaleInputs, c \in 2..3 :
            /\ FluxEq(evaluate(model, energy, c * scale),
                      Times(evaluate(model, energy, scale), c))
            /\ FluxEq(evaluate([model EXCEPT !.jfactor.value = c * @], energy, scale),
                      Times(evaluate(model, energy, scale), c))
            /\ IsAnnihilation(model) =>
                 FluxEq(evaluate([model EXCEPT !.k = 2], energy, scale),
                        Times(evaluate([model EXCEPT !.k = 4], energy, scale), 2))

C8_Witness ==
    /\ last.op = "model.evaluate"
    /\ IsAnnihilation(model)
    /\ model.k = 4
    /\ model.jfactor.value = 2
    /\ last.args.scale = 2
    /\ ~IsZero(last.result)

\* C9: in every state of a flux model, the mass of the formula's denominator
\* (model.mass) is the mass the interpolant is queried at
\* (model.primary_flux.mDM), and to_dict exports that mass.
C9_OneMass ==
    model # NoInstance =>
        /\ SameMass(model.mass, mDM_getter(model.primary_flux))
        /\ SameMass(Quantity(to_dict(model).spectral.mass),
                    mDM_getter(model.primary_flux))

----------------------------------------------------------------------------
(* Properties of construction, under ConstructSpec *)

\* C10: construction checks the data file, then the channel, then the mass,
\* and raises the error of the first check that fails: with the file missing
\* the file error whatever the channel and mass, with the file present and an
\* unregistered channel the channel error whatever the mass; the flux models
\* raise the same errors, and a failed construction leaves no instance.
C10_FirstFailingCheck ==
    last.op \in {"PrimaryFlux", "Annihilation", "Decay"} =>
        /\ ~last.args.file => last.error = FileNotFoundError
        /\ (last.args.file /\ last.args.channel \notin DOMAIN channel_registry)
             => last.error = InvalidChannelError(allowed_channels)
        /\ (last.args.file /\ last.args.channel \in DOMAIN channel_registry)
             => \/ OutOfAxis(last.args.mDM) /\ last.error.what = "mDM"
                                            /\ last.error.type = "ValueError"
                \/ ~IsMass(last.args.mDM) /\ last.error = UnitConversionError
                \/ IsMass(last.args.mDM) /\ ~OutOfAxis(last.args.mDM)
                                         /\ last.error = NoError
        /\ last.error # NoError =>
             IF last.op = "PrimaryFlux" THEN pf = NoInstance ELSE model = NoInstance
        /\ last.error = NoError =>
             IF last.op = "PrimaryFlux" THEN pf # NoInstance ELSE model # NoInstance

C10_Witness ==
    /\ last.op = "Annihilation"
    /\ ~last.args.file
    /\ last.args.channel = "foo"
    /\ last.args.mDM = Q(20, "TeV")
    /\ last.error = FileNotFoundError
    /\ model = NoInstance

====
